---- MODULE Spec2Model ----
(***************************************************************************)
(* Usage-telemetry delivery of claude-code-leaderboard.                    *)
(*                                                                         *)
(* The components are modelled each with its own specifications (the hook, *)
(* the bulk uploader, and further down the startup of the command line     *)
(* program and the exit status of a hook run):                             *)
(*   - the session hook (hooks/count_tokens.js and its simplified later    *)
(*     revision, unnamed/part_006): scan of the JSONL logs, the submission *)
(*     ledger leaderboard_submitted.json, single-entry delivery with       *)
(*     retries, backlog delivery;                                          *)
(*   - the bulk uploader (src/utils/bulk-uploader.js): batch planning by   *)
(*     date, windows of concurrent batch requests, per-batch retries.      *)
(*                                                                         *)
(* Time is counted in days.  An identifier that is absent from a log line  *)
(* is the empty string.  An interaction id is a tuple: <<>> is null,       *)
(* <<x>> is the bare identifier x, <<m, r>> is the composite "m:r".        *)
(***************************************************************************)
EXTENDS Integers, Sequences, FiniteSets, TLC

(***************************************************************************)
(* Bounds of the model.                                                    *)
(***************************************************************************)
MaxLines == 2        \* log lines in total, over the two log files
MaxLinesConc == 1    \* the same, when two hook processes run concurrently
NDates == 4          \* calendar dates the uploaded entries are spread over
HalfBatch == 2500    \* entries of a date that fills half a batch
Now0 == 100          \* the day of the initial state
OldAge == 31         \* age in days of an "old" log line at Now0
NewAge == 1          \* age in days of a "recent" log line at Now0
MaxScanLines == 4    \* lines in total over the two files of a full scan
MaxScans == 2        \* full-history scans over the same files

(***************************************************************************)
(* Program constants.                                                      *)
(***************************************************************************)
TRACKING_RETENTION_DAYS == 30
SEND_MAX_RETRIES == 3          \* sendToAPI(endpoint, payload, maxRetries = 3)
BACKLOG_LIMIT == 5             \* getAllUnsubmittedUsage(trackingData, 5)
BACKLOG_MAX_FILES == 50        \* sortedFiles.slice(0, 50)
LATEST_MAX_FILES == 20         \* maxFilesToCheck
MAX_RETRIES == 3               \* uploadBatch
BATCH_SIZE == 5000             \* uploadShardedNdjson
MAX_CONCURRENT == 3            \* uploadShardedNdjson

Procs == {1, 2}
NULL == <<>>
MsgIds == {"", "m1"}
ReqIds == {"", "r1"}
Responses == {"2xx", "409", "4xx", "5xx", "neterr"}

OldDay == Now0 - OldAge
NewDay == Now0 - NewAge

InvalidLine == [valid |-> FALSE, mid |-> "", rid |-> "", ts |-> 0]
ValidLines == [valid : {TRUE}, mid : MsgIds, rid : ReqIds, ts : {OldDay, NewDay}]
LineKinds == {InvalidLine} \cup ValidLines

SeqsUpTo(S, n) == UNION {[1..k -> S] : k \in 0..n}
Range(s) == {s[i] : i \in 1..Len(s)}

VARIABLES
  hook,          \* which revision of the hook is installed
  log,           \* the JSONL files, in directory-walk order
  now,           \* the current day
  ledgerFile,    \* content of leaderboard_submitted.json
  pc,            \* position of each hook process in main
  usage,         \* usageData of each hook process
  tracking,      \* trackingData of each hook process
  backlog,       \* unsubmittedEntries of each hook process
  bidx,          \* index of the backlog entry being delivered
  runOK,         \* records confirmed delivered in the current run
  runFailed,     \* records whose sendToAPI call threw in the current run
  deliveries     \* per record, number of accepted (2xx) deliveries, capped

hookVars == <<hook, log, now, ledgerFile, pc, usage, tracking,
              backlog, bidx, runOK, runFailed, deliveries>>

VARIABLES
  uin,           \* the lines and tokens given to uploadShardedNdjson
  upc,           \* position of uploadShardedNdjson
  batches,       \* the planned batches
  bs,            \* per batch: state of its uploadBatch call
  widx,          \* i, the index (from 0) of the first batch of the window
  results,       \* the results pushed so far
  totals,        \* the returned totals
  answer         \* the last answer of the endpoint: the batch, the status
                 \* and the body

upVars == <<uin, upc, batches, bs, widx, results, totals, answer>>

VARIABLES
  cli,             \* which startup sequence bin/cli.js runs
  config,          \* the stored configuration: which token fields it has
  marker,          \* whether the migration marker file exists
  isResetCommand,  \* process.argv[2] === 'reset'
  spc,             \* position of the startup sequence
  versionResp,     \* the answer to the version check of this run
  resetResp,       \* the answer to the last reset or delete request
  resetResult,     \* what the auto-reset step returned
  needsReauth,     \* needsReauth of bin/cli.js
  scanned,         \* whether scanAllHistoricalUsage ran in this run
  netlog           \* the requests sent in this run, in order

startVars == <<cli, config, marker, isResetCommand, spc, versionResp,
               resetResp, resetResult, needsReauth, scanned, netlog>>

VARIABLES
  run,             \* one hook run seen from outside: the revision, what it
                   \* finds, and the server's answer to each attempt
  exited           \* how that run ended: exit status, attempts, failure

exitVars == <<run, exited>>

VARIABLES
  pline,           \* a line given to parseUsageFromLine of the usage scanner
  pout,            \* what parseUsageFromLine returned for it
  sin,             \* what a full-history scan finds: roots, files, lines
  sout             \* the results of the full-history scans made so far

scanVars == <<pline, pout, sin, sout>>

vars == <<hookVars, upVars, startVars, exitVars, scanVars>>

(***************************************************************************)
(* Interaction-id policies.                                                *)
(***************************************************************************)
\* hooks/count_tokens.js, unnamed/part_006: requestId || messageId || null
createUniqueHash_hook(data) ==
  IF data.rid # "" THEN <<data.rid>>
  ELSE IF data.mid # "" THEN <<data.mid>>
  ELSE NULL

\* src/auth/tokens.js (usage scanner): both identifiers or null
createUniqueHash_scanner(data) ==
  IF data.rid # "" /\ data.mid # "" THEN <<data.mid, data.rid>> ELSE NULL

NoUsage == [present |-> FALSE, src |-> InvalidLine, timestamp |-> 0,
            interaction_id |-> NULL, source |-> "none"]

\* parseUsageFromLine of the hook: null for a line that fails validation
parseUsageFromLine_hook(line) ==
  IF ~line.valid THEN NoUsage
  ELSE [present |-> TRUE, src |-> line, timestamp |-> line.ts,
        interaction_id |-> createUniqueHash_hook(line), source |-> "scan"]

\* parseUsageFromLine of the usage scanner
parseUsageFromLine_scanner(line) ==
  IF ~line.valid THEN NoUsage
  ELSE [present |-> TRUE, src |-> line, timestamp |-> line.ts,
        interaction_id |-> createUniqueHash_scanner(line), source |-> "scan"]

\* main, stdin path of count_tokens.js: usageData built from the payload
parseStdin(hookData, today) ==
  [present |-> TRUE, src |-> hookData,
   timestamp |-> IF hookData.ts # 0 THEN hookData.ts ELSE today,
   interaction_id |-> IF hookData.rid # "" THEN <<hookData.rid>>
                      ELSE IF hookData.mid # "" THEN <<hookData.mid>>
                      ELSE NULL,
   source |-> "stdin"]

(***************************************************************************)
(* Files and walk order.                                                   *)
(***************************************************************************)
RECURSIVE sortFilesByTimestamp(_)
\* stable sort by mtime, newest first
sortFilesByTimestamp(files) ==
  IF Len(files) = 0 THEN <<>>
  ELSE LET top == CHOOSE i \in 1..Len(files) :
                    /\ \A j \in 1..Len(files) : files[j].mtime <= files[i].mtime
                    /\ \A j \in 1..(i-1) : files[j].mtime < files[i].mtime
           rest == [k \in 1..(Len(files)-1) |->
                      IF k < top THEN files[k] ELSE files[k+1]]
       IN <<files[top]>> \o sortFilesByTimestamp(rest)

Reverse(s) == [i \in 1..Len(s) |-> s[Len(s) + 1 - i]]
Slice(s, n) == SubSeq(s, 1, IF Len(s) < n THEN Len(s) ELSE n)

RECURSIVE Flatten(_, _)
\* the lines of the files in the order a scan visits them
Flatten(files, newestLineFirst) ==
  IF Len(files) = 0 THEN <<>>
  ELSE (IF newestLineFirst THEN Reverse(files[1].lines) ELSE files[1].lines)
       \o Flatten(Tail(files), newestLineFirst)

AllLines(files) == Range(Flatten(files, FALSE))

(***************************************************************************)
(* Submission ledger.                                                      *)
(***************************************************************************)
EmptyLedger == [id \in {} |-> 0]
AbsentFile == [kind |-> "absent", data |-> EmptyLedger]

\* ledger files a run can find: none, a well-formed map, or a damaged
\* serialisation of a map (data is then what the text was written from)
LedgerIds == {<<"r1">>, <<"m1">>}
LedgerAges == {TRACKING_RETENTION_DAYS - 1, TRACKING_RETENTION_DAYS,
               TRACKING_RETENTION_DAYS + 1}
LedgerMaps ==
  UNION {[ids -> {Now0 - a : a \in LedgerAges}] : ids \in SUBSET LedgerIds}
LedgerFiles == {AbsentFile} \cup [kind : {"ok", "corrupt"}, data : LedgerMaps]

\* a loadTracking that returns the parsed map without the clean-up
loadTracking_keepsAll(file, today) ==
  IF file.kind # "ok" THEN EmptyLedger ELSE file.data

\* a loadTracking that salvages the entries of a damaged file
loadTracking_salvages(file, today) ==
  IF file.kind = "absent" THEN EmptyLedger
  ELSE LET cutoff == today - TRACKING_RETENTION_DAYS
           keep == {id \in DOMAIN file.data : file.data[id] > cutoff}
       IN [id \in keep |-> file.data[id]]

\* loadTracking: entries younger than the retention window; {} when the
\* file is absent or unparsable
loadTracking(file, today) ==
  IF file.kind # "ok" THEN EmptyLedger
  ELSE LET cutoff == today - TRACKING_RETENTION_DAYS
           keep == {id \in DOMAIN file.data : file.data[id] > cutoff}
       IN [id \in keep |-> file.data[id]]

\* saveTracking: the whole in-memory map replaces the file
saveTracking(trackingData) == [kind |-> "ok", data |-> trackingData]

Put(td, id, ts) ==
  [x \in (DOMAIN td) \cup {id} |-> IF x = id THEN ts ELSE td[x]]

\* a main that records the id whether or not sendToAPI threw
TrackAfterSend_always(td, u, ok, today) ==
  IF u.interaction_id # NULL
  THEN Put(td, u.interaction_id, IF u.timestamp # 0 THEN u.timestamp ELSE today)
  ELSE td

\* main: what trackingData becomes after sendToAPI returned (ok) or threw
TrackAfterSend(td, u, ok, today) ==
  IF ok /\ u.interaction_id # NULL
  THEN Put(td, u.interaction_id, IF u.timestamp # 0 THEN u.timestamp ELSE today)
  ELSE td

(***************************************************************************)
(* Scans of the hook.                                                      *)
(***************************************************************************)
RECURSIVE FirstMatch(_, _)
FirstMatch(us, skip) ==
  IF Len(us) = 0 THEN NoUsage
  ELSE IF us[1].present /\ ~skip[1] THEN us[1]
  ELSE FirstMatch(Tail(us), Tail(skip))

\* getLatestTokenUsage of count_tokens.js: the first valid record met,
\* newest file first, last line first; the ledger is not consulted
getLatestTokenUsage_A(files) ==
  LET walk == Flatten(Slice(sortFilesByTimestamp(files), LATEST_MAX_FILES), TRUE)
      us == [i \in 1..Len(walk) |-> parseUsageFromLine_hook(walk[i])]
  IN FirstMatch(us, [i \in 1..Len(us) |-> FALSE])

\* getLatestTokenUsage of part_006: records without id and records present
\* in the ledger are passed over
getLatestTokenUsage_B(files, td) ==
  LET walk == Flatten(sortFilesByTimestamp(files), TRUE)
      us == [i \in 1..Len(walk) |-> parseUsageFromLine_hook(walk[i])]
  IN FirstMatch(us, [i \in 1..Len(us) |->
                       \/ us[i].interaction_id = NULL
                       \/ us[i].interaction_id \in DOMAIN td])

RECURSIVE Unsubmitted(_, _, _, _, _)
Unsubmitted(us, td, limit, processedHashes, acc) ==
  IF Len(us) = 0 \/ Len(acc) >= limit THEN acc
  ELSE LET u == us[1]
           skip == \/ ~u.present
                   \/ u.interaction_id = NULL
                   \/ u.interaction_id \in processedHashes
                   \/ u.interaction_id \in DOMAIN td
       IN IF skip THEN Unsubmitted(Tail(us), td, limit, processedHashes, acc)
          ELSE Unsubmitted(Tail(us), td, limit,
                           processedHashes \cup {u.interaction_id},
                           Append(acc, u))

\* a getAllUnsubmittedUsage that does not look into trackingData
getAllUnsubmittedUsage_ignoresLedger(files, td, limit) ==
  LET walk == Flatten(Slice(sortFilesByTimestamp(files), BACKLOG_MAX_FILES), FALSE)
      us == [i \in 1..Len(walk) |-> parseUsageFromLine_hook(walk[i])]
  IN Unsubmitted(us, EmptyLedger, limit, {}, <<>>)

\* getAllUnsubmittedUsage: oldest line first within a file
getAllUnsubmittedUsage(files, td, limit) ==
  LET walk == Flatten(Slice(sortFilesByTimestamp(files), BACKLOG_MAX_FILES), FALSE)
      us == [i \in 1..Len(walk) |-> parseUsageFromLine_hook(walk[i])]
  IN Unsubmitted(us, td, limit, {}, <<>>)

RECURSIVE ScanLines(_, _, _)
\* scanJsonlFile over the concatenated files, with the shared seenInteractions
ScanLines(ls, seenInteractions, acc) ==
  IF Len(ls) = 0 THEN acc
  ELSE LET u == parseUsageFromLine_scanner(ls[1])
       IN IF ~u.present THEN ScanLines(Tail(ls), seenInteractions, acc)
          ELSE IF u.interaction_id # NULL /\ u.interaction_id \in seenInteractions
               THEN ScanLines(Tail(ls), seenInteractions, acc)
          ELSE ScanLines(Tail(ls),
                         IF u.interaction_id # NULL
                         THEN seenInteractions \cup {u.interaction_id}
                         ELSE seenInteractions,
                         Append(acc, u))

\* scanAllHistoricalUsage: entries of the full-history scan
scanAllHistoricalUsage(files) == ScanLines(Flatten(files, FALSE), {}, <<>>)

(***************************************************************************)
(* sendToAPI.                                                              *)
(***************************************************************************)
\* what one attempt does with the answer it gets: "ok" resolves, "throw"
\* rejects without retry, "retry" rejects with an error the loop retries
\* a sendToAPI whose catch block retries after every rejection
sendToAPI_attempt_retriesAll(resp) ==
  IF resp = "2xx" \/ resp = "409" THEN "ok" ELSE "retry"

\* one pass of the retry loop: 426 is a 4xx like any other
sendToAPI_attempt(resp) ==
  IF resp = "2xx" \/ resp = "409" THEN "ok"
  ELSE IF resp = "4xx" \/ resp = "426" THEN "throw"
  ELSE "retry"

RECURSIVE sendToAPI_loop(_, _)
sendToAPI_loop(resps, att) ==
  IF att >= SEND_MAX_RETRIES THEN [ok |-> FALSE, accepted |-> FALSE, attempts |-> att]
  ELSE LET out == sendToAPI_attempt(resps[att + 1])
       IN IF out = "ok"
          THEN [ok |-> TRUE, accepted |-> resps[att + 1] = "2xx", attempts |-> att + 1]
          ELSE IF out = "throw"
          THEN [ok |-> FALSE, accepted |-> FALSE, attempts |-> att + 1]
          ELSE sendToAPI_loop(resps, att + 1)

\* sendToAPI against a server that answers the k-th attempt with resps[k]:
\* ok = it returned (did not throw), accepted = the server took the record
sendToAPI(resps) == sendToAPI_loop(resps, 0)

\* the answers a call can meet: one per attempt it makes
ResponseSeqs ==
  {s \in SeqsUpTo(Responses, SEND_MAX_RETRIES) :
     /\ Len(s) >= 1
     /\ \A i \in 1..(Len(s) - 1) : sendToAPI_attempt(s[i]) = "retry"
     /\ Len(s) < SEND_MAX_RETRIES => sendToAPI_attempt(s[Len(s)]) # "retry"}

(***************************************************************************)
(* The hook process.                                                       *)
(***************************************************************************)
HookInitFrom(maxLines, ledgers) ==
  /\ hook \in {"count_tokens", "part_006"}
  /\ \E all \in SeqsUpTo(LineKinds, maxLines) : \E k \in 0..Len(all) :
       log = << [mtime |-> 1, lines |-> SubSeq(all, 1, k)],
                [mtime |-> 2, lines |-> SubSeq(all, k + 1, Len(all))] >>
  /\ now = Now0
  /\ ledgerFile \in ledgers
  /\ pc = [p \in Procs |-> "idle"]
  /\ usage = [p \in Procs |-> NoUsage]
  /\ tracking = [p \in Procs |-> EmptyLedger]
  /\ backlog = [p \in Procs |-> <<>>]
  /\ bidx = [p \in Procs |-> 0]
  /\ runOK = [p \in Procs |-> {}]
  /\ runFailed = [p \in Procs |-> {}]
  /\ deliveries = [r \in (AllLines(log) \cap ValidLines) |-> 0]

\* a first run: no ledger file yet
HookInitWith(maxLines) == HookInitFrom(maxLines, {AbsentFile})

\* process.exit: the run is over, its locals are gone
Exit(p) ==
  /\ pc' = [pc EXCEPT ![p] = "idle"]
  /\ usage' = [usage EXCEPT ![p] = NoUsage]
  /\ tracking' = [tracking EXCEPT ![p] = EmptyLedger]
  /\ backlog' = [backlog EXCEPT ![p] = <<>>]
  /\ bidx' = [bidx EXCEPT ![p] = 0]
  /\ runOK' = [runOK EXCEPT ![p] = {}]
  /\ runFailed' = [runFailed EXCEPT ![p] = {}]

StdinPayloads == AllLines(log) \cap ValidLines

\* count_tokens.js main, up to the authentication check
BeginA(p) ==
  /\ hook = "count_tokens"
  /\ pc[p] = "idle"
  /\ \E useStdin \in BOOLEAN : \E authed \in BOOLEAN :
     \E hookData \in IF useStdin THEN StdinPayloads ELSE {InvalidLine} :
       LET u == IF useStdin THEN parseStdin(hookData, now)
                ELSE getLatestTokenUsage_A(log)
       IN IF ~u.present \/ ~authed
          THEN UNCHANGED <<pc, usage>>
          ELSE /\ pc' = [pc EXCEPT ![p] = "load"]
               /\ usage' = [usage EXCEPT ![p] = u]
  /\ UNCHANGED <<hook, log, now, ledgerFile, tracking, backlog, bidx,
                 runOK, runFailed, deliveries>>

\* count_tokens.js main: loadTracking and the duplicate check
LoadA(p) ==
  /\ hook = "count_tokens"
  /\ pc[p] = "load"
  /\ LET td == loadTracking(ledgerFile, now)
         u == usage[p]
     IN IF u.interaction_id # NULL /\ u.interaction_id \in DOMAIN td
        THEN Exit(p)
        ELSE /\ pc' = [pc EXCEPT ![p] = "send"]
             /\ tracking' = [tracking EXCEPT ![p] = td]
             /\ UNCHANGED <<usage, backlog, bidx, runOK, runFailed>>
  /\ UNCHANGED <<hook, log, now, ledgerFile, deliveries>>

\* part_006 main, up to loadTracking
BeginB(p) ==
  /\ hook = "part_006"
  /\ pc[p] = "idle"
  /\ \E authed \in BOOLEAN :
       IF ~authed
       THEN UNCHANGED <<pc, tracking>>
       ELSE /\ pc' = [pc EXCEPT ![p] = "scan"]
            /\ tracking' = [tracking EXCEPT ![p] = loadTracking(ledgerFile, now)]
  /\ UNCHANGED <<hook, log, now, ledgerFile, usage, backlog, bidx,
                 runOK, runFailed, deliveries>>

\* part_006 main: getLatestTokenUsage, which loads the ledger again
ScanB(p) ==
  /\ hook = "part_006"
  /\ pc[p] = "scan"
  /\ LET u == getLatestTokenUsage_B(log, loadTracking(ledgerFile, now))
     IN IF ~u.present
        THEN Exit(p)
        ELSE /\ pc' = [pc EXCEPT ![p] = "send"]
             /\ usage' = [usage EXCEPT ![p] = u]
             /\ UNCHANGED <<tracking, backlog, bidx, runOK, runFailed>>
  /\ UNCHANGED <<hook, log, now, ledgerFile, deliveries>>

\* the server's count of record r after a sendToAPI call with result res
Network(r, res) ==
  deliveries' = IF res.accepted /\ r \in DOMAIN deliveries
                THEN [deliveries EXCEPT ![r] = IF @ < 2 THEN @ + 1 ELSE @]
                ELSE deliveries

\* main: sendToAPI for usageData, and the update of trackingData
Send(p) ==
  /\ pc[p] = "send"
  /\ \E resps \in ResponseSeqs :
       LET u == usage[p]
           res == sendToAPI(resps)
       IN /\ Network(u.src, res)
          /\ tracking' = [tracking EXCEPT ![p] = TrackAfterSend(@, u, res.ok, now)]
          /\ runOK' = IF res.ok THEN [runOK EXCEPT ![p] = @ \cup {u.src}] ELSE runOK
          /\ runFailed' = IF res.ok THEN runFailed
                          ELSE [runFailed EXCEPT ![p] = @ \cup {u.src}]
          /\ pc' = [pc EXCEPT ![p] =
                      IF res.ok /\ u.interaction_id # NULL THEN "save" ELSE "after"]
  /\ UNCHANGED <<hook, log, now, ledgerFile, usage, backlog, bidx>>

\* main: saveTracking after the successful delivery
Save(p) ==
  /\ pc[p] = "save"
  /\ ledgerFile' = saveTracking(tracking[p])
  /\ pc' = [pc EXCEPT ![p] = "after"]
  /\ UNCHANGED <<hook, log, now, usage, tracking, backlog, bidx,
                 runOK, runFailed, deliveries>>

\* main after the delivery: the backlog scan (count_tokens.js, stdin source
\* only), or the end of the run
After(p) ==
  /\ pc[p] = "after"
  /\ LET entries == IF hook = "count_tokens" /\ usage[p].source = "stdin"
                    THEN getAllUnsubmittedUsage(log, tracking[p], BACKLOG_LIMIT)
                    ELSE <<>>
     IN IF Len(entries) = 0
        THEN Exit(p)
        ELSE /\ pc' = [pc EXCEPT ![p] = "backlog"]
             /\ backlog' = [backlog EXCEPT ![p] = entries]
             /\ bidx' = [bidx EXCEPT ![p] = 1]
             /\ UNCHANGED <<usage, tracking, runOK, runFailed>>
  /\ UNCHANGED <<hook, log, now, ledgerFile, deliveries>>

\* main, backlog loop: sendToAPI for one backlogEntry
BacklogSend(p) ==
  /\ pc[p] = "backlog"
  /\ \E resps \in ResponseSeqs :
       LET u == backlog[p][bidx[p]]
           res == sendToAPI(resps)
           last == bidx[p] = Len(backlog[p])
       IN /\ Network(u.src, res)
          /\ tracking' = [tracking EXCEPT ![p] = TrackAfterSend(@, u, res.ok, now)]
          /\ runOK' = IF res.ok THEN [runOK EXCEPT ![p] = @ \cup {u.src}] ELSE runOK
          /\ runFailed' = IF res.ok THEN runFailed
                          ELSE [runFailed EXCEPT ![p] = @ \cup {u.src}]
          /\ bidx' = [bidx EXCEPT ![p] = @ + 1]
          /\ pc' = [pc EXCEPT ![p] = IF last THEN "bsave" ELSE "backlog"]
  /\ UNCHANGED <<hook, log, now, ledgerFile, usage, backlog>>

\* main: saveTracking after the backlog loop, then exit
BacklogSave(p) ==
  /\ pc[p] = "bsave"
  /\ ledgerFile' = saveTracking(tracking[p])
  /\ Exit(p)
  /\ UNCHANGED <<hook, log, now, deliveries>>

HookStep(p) ==
  \/ BeginA(p) \/ LoadA(p) \/ BeginB(p) \/ ScanB(p)
  \/ Send(p) \/ Save(p) \/ After(p)
  \/ BacklogSend(p) \/ BacklogSave(p)


(***************************************************************************)
(* The bulk uploader: batch planner.                                       *)
(***************************************************************************)
Dates == 1..NDates
\* entries per date: none, half a batch, more than a whole batch
CountChoices == {0, HalfBatch, BATCH_SIZE + 1}

\* what the lines parse to: unparsable lines, entries without timestamp,
\* and per date the number of entries
UploadInputs ==
  {u \in [tokens : BOOLEAN, bad : {0, 1}, nots : {0, 1},
          byDate : [Dates -> CountChoices]] : u.bad + u.nots <= 1}
NoInput == [tokens |-> FALSE, bad |-> 0, nots |-> 0, byDate |-> [d \in Dates |-> 0]]

\* Object.keys(entriesByDate).sort(): the dates that have entries, ascending
RECURSIVE SortedSeq(_)
SortedSeq(S) ==
  IF S = {} THEN <<>>
  ELSE LET m == CHOOSE x \in S : \A y \in S : x <= y
       IN <<m>> \o SortedSeq(S \ {m})

\* the dates that have entries, latest first
sortedDates_descending(byDate) ==
  Reverse(SortedSeq({d \in DOMAIN byDate : byDate[d] > 0}))

sortedDates(byDate) == SortedSeq({d \in DOMAIN byDate : byDate[d] > 0})

EmptyBatch == [dates |-> <<>>, size |-> 0]
CloseBatch(cur, acc) ==
  Append(acc, [dates |-> cur.dates, size |-> cur.size, batchNumber |-> Len(acc) + 1])

\* a test that lets every date into the running batch
wouldExceed_never(size, n) == FALSE

\* a test that looks at the running batch only
wouldExceed_ignoresDate(size, n) == size > BATCH_SIZE

\* currentBatch.length > 0 && currentBatch.length + dateEntries.length > BATCH_SIZE
wouldExceed(size, n) == size > 0 /\ size + n > BATCH_SIZE

\* currentBatch.length >= BATCH_SIZE
isFull(size) == size >= BATCH_SIZE

RECURSIVE planLoop_splitsDate(_, _, _, _)
\* a planner that cuts a date with more than BATCH_SIZE entries in two
planLoop_splitsDate(ds, byDate, cur, acc) ==
  IF Len(ds) = 0
  THEN IF cur.size > 0 THEN CloseBatch(cur, acc) ELSE acc
  ELSE LET n == byDate[ds[1]]
           acc1 == IF cur.size > 0 THEN CloseBatch(cur, acc) ELSE acc
           one == [dates |-> <<ds[1]>>, size |-> n]
           head == [dates |-> <<ds[1]>>, size |-> BATCH_SIZE]
           rest == [dates |-> <<ds[1]>>, size |-> n - BATCH_SIZE]
       IN IF n > BATCH_SIZE
          THEN planLoop_splitsDate(Tail(ds), byDate, EmptyBatch,
                                   CloseBatch(rest, CloseBatch(head, acc1)))
          ELSE planLoop_splitsDate(Tail(ds), byDate, EmptyBatch,
                                   CloseBatch(one, acc1))

RECURSIVE planLoop(_, _, _, _)
\* the loop over sortedDates
planLoop(ds, byDate, cur, acc) ==
  IF Len(ds) = 0
  THEN IF cur.size > 0 THEN CloseBatch(cur, acc) ELSE acc
  ELSE LET n == byDate[ds[1]]
           overflow == wouldExceed(cur.size, n)
           acc1 == IF overflow THEN CloseBatch(cur, acc) ELSE acc
           cur1 == IF overflow THEN EmptyBatch ELSE cur
           cur2 == [dates |-> Append(cur1.dates, ds[1]), size |-> cur1.size + n]
       IN IF isFull(cur2.size)
          THEN planLoop(Tail(ds), byDate, EmptyBatch, CloseBatch(cur2, acc1))
          ELSE planLoop(Tail(ds), byDate, cur2, acc1)

\* the date-based batches of uploadShardedNdjson
planBatches(byDate) == planLoop(sortedDates(byDate), byDate, EmptyBatch, <<>>)

(***************************************************************************)
(* The bulk uploader: uploadBatch.                                         *)
(***************************************************************************)
UpCodes == {"2xx", "409", "4xx", "5xx", "neterr"}
\* the answers of the bulk-import endpoint to a batch of the given size
UpResponses(size) ==
  {[code |-> "2xx", parsable |-> FALSE, processed |-> 0, failed |-> 0],
   [code |-> "2xx", parsable |-> TRUE, processed |-> size, failed |-> 0],
   [code |-> "2xx", parsable |-> TRUE, processed |-> 0, failed |-> size]}
  \cup [code : UpCodes \ {"2xx"}, parsable : {FALSE}, processed : {0}, failed : {0}]

Pending == [status |-> "pending", retryCount |-> 0, attempts |-> 0,
            processed |-> 0, failed |-> 0, error |-> FALSE]
\* the request of an uploadBatch call that has just been created
FirstRequest == [Pending EXCEPT !.status = "inflight", !.attempts = 1]

\* a retry condition that allows one attempt more
ShouldRetry_oneMore(retryCount) == retryCount <= MAX_RETRIES

\* uploadBatch, catch block: retryCount < MAX_RETRIES
ShouldRetry(retryCount) == retryCount < MAX_RETRIES

\* uploadBatch: the state of the call after the answer resp to its request;
\* the backoff delay and the recursive call's request are one step.  A call
\* that resolves leaves its result only: the count of its requests is kept
\* for the calls that are running or have given up
uploadBatch_onResponse(b, size, resp) ==
  IF resp.code = "2xx"
  THEN [b EXCEPT !.status = "done",
                 !.retryCount = 0, !.attempts = 0,
                 !.processed = IF resp.parsable /\ resp.processed # 0
                               THEN resp.processed ELSE size,
                 !.failed = IF resp.parsable /\ resp.failed # 0
                            THEN resp.failed ELSE 0]
  ELSE IF ShouldRetry(b.retryCount)
       THEN [b EXCEPT !.retryCount = @ + 1, !.attempts = @ + 1]
       ELSE [b EXCEPT !.status = "done", !.error = TRUE,
                      !.processed = 0, !.failed = size]

(***************************************************************************)
(* The bulk uploader: uploadShardedNdjson.                                 *)
(***************************************************************************)
Min(a, b) == IF a < b THEN a ELSE b
\* batches.slice(i, i + MAX_CONCURRENT), as indexes from 1
Window(i, n) == (i + 1)..Min(i + MAX_CONCURRENT, n)

\* a join that resumes as soon as one batch of the window has settled
WindowSettled_any(states, i) ==
  \E b \in Window(i, Len(states)) : states[b].status = "done"

\* Promise.allSettled(batchPromises)
WindowSettled(states, i) ==
  \A b \in Window(i, Len(states)) : states[b].status = "done"

\* uploadBatch is called for every batch of the window
OpenWindow(states, i) ==
  [b \in 1..Len(states) |->
     IF b \in Window(i, Len(states)) THEN FirstRequest ELSE states[b]]

RECURSIVE SumOf(_, _)
SumOf(rs, field) ==
  IF Len(rs) = 0 THEN 0 ELSE rs[1][field] + SumOf(Tail(rs), field)

\* totals that count only the last result
calcTotals_lastOnly(rs) ==
  IF Len(rs) = 0 THEN [processed |-> 0, failed |-> 0]
  ELSE [processed |-> rs[Len(rs)].processed, failed |-> rs[Len(rs)].failed]

\* the totals loop over results
calcTotals(rs) ==
  [processed |-> SumOf(rs, "processed"), failed |-> SumOf(rs, "failed")]

UploadIdle ==
  /\ upc = "idle"
  /\ batches = <<>>
  /\ bs = <<>>
  /\ widx = 0
  /\ results = <<>>
  /\ totals = [processed |-> 0, failed |-> 0]
  /\ answer = [batch |-> 0, code |-> "none", parsable |-> FALSE,
               processed |-> 0, failed |-> 0]

\* uploadShardedNdjson up to the first window
StartUpload ==
  /\ upc = "idle"
  /\ IF ~uin.tokens
     THEN /\ upc' = "threw"
          /\ UNCHANGED <<batches, bs, widx, results, totals>>
     ELSE LET planned == planBatches(uin.byDate)
              fresh == [b \in 1..Len(planned) |-> Pending]
          IN /\ batches' = planned
             /\ widx' = 0
             /\ results' = <<>>
             /\ IF Len(planned) = 0
                THEN /\ upc' = "done"
                     /\ totals' = calcTotals(<<>>)
                     /\ bs' = fresh
                ELSE /\ upc' = "running"
                     /\ bs' = OpenWindow(fresh, 0)
                     /\ UNCHANGED totals
  /\ UNCHANGED <<uin, answer>>

\* the endpoint answers the request of batch b
Respond(b) ==
  /\ upc = "running"
  /\ b \in 1..Len(bs)
  /\ bs[b].status = "inflight"
  /\ \E resp \in UpResponses(batches[b].size) :
       /\ bs' = [bs EXCEPT ![b] = uploadBatch_onResponse(@, batches[b].size, resp)]
       /\ answer' = [batch |-> b, code |-> resp.code, parsable |-> resp.parsable,
                     processed |-> resp.processed, failed |-> resp.failed]
  /\ UNCHANGED <<uin, upc, batches, widx, results, totals>>

\* the window has settled: its results are pushed, and the next window is
\* opened or the totals are returned
Advance ==
  /\ upc = "running"
  /\ WindowSettled(bs, widx)
  /\ LET w == Window(widx, Len(bs))
         pushed == results \o [k \in 1..Cardinality(w) |->
                     [processed |-> bs[widx + k].processed,
                      failed |-> bs[widx + k].failed]]
         i == widx + MAX_CONCURRENT
     IN /\ results' = pushed
        /\ widx' = i
        /\ IF i < Len(batches)
           THEN /\ bs' = OpenWindow(bs, i)
                /\ UNCHANGED <<upc, totals>>
           ELSE /\ upc' = "done"
                /\ totals' = calcTotals(pushed)
                /\ UNCHANGED bs
  /\ UNCHANGED <<uin, batches, answer>>

\* the request of batch b gets no answer: after the two minutes of the
\* request's timeout option the 'timeout' event is emitted; uploadBatch has
\* no listener for it, so the request stays open and its promise unsettled
Timeout(b) ==
  /\ upc = "running"
  /\ b \in 1..Len(bs)
  /\ bs[b].status = "inflight"
  /\ bs' = [bs EXCEPT ![b].status = "hung"]
  /\ UNCHANGED <<uin, upc, batches, widx, results, totals, answer>>

UploadStep == StartUpload \/ (\E b \in 1..NDates : Respond(b)) \/ Advance

(***************************************************************************)
(* Startup reconciliation: bin/cli.js, auto-reset.js, migration.           *)
(***************************************************************************)
Configs == [oauth_token : BOOLEAN, oauth_token_secret : BOOLEAN]

\* a test that is content with one of the two fields
hasTokens_either(c) == c.oauth_token \/ c.oauth_token_secret

\* getTokens, checkNeedsFullReset: both token fields must be stored
hasTokens(c) == c.oauth_token /\ c.oauth_token_secret

\* clearAuthData
clearAuthData(c) == [c EXCEPT !.oauth_token = FALSE, !.oauth_token_secret = FALSE]

\* the answers to the version check: 2xx with needs_migration true or
\* false, 2xx with a body that is no JSON, 404, another 4xx, 5xx, no answer
VersionResponses ==
  {"2xx_needs", "2xx_noneed", "2xx_garbled", "404", "4xx", "5xx", "neterr"}
\* the answers to the reset and delete requests
ResetResponses == {"2xx", "404", "4xx", "5xx", "neterr"}

\* a version check that takes every failure as a demand to migrate
checkVersionWithServer_failOpen(resp) ==
  IF resp = "404" THEN [needs_migration |-> FALSE, reason |-> "user_not_found"]
  ELSE [needs_migration |-> resp # "2xx_noneed", reason |-> "server"]

\* checkVersionWithServer of the silent auto-reset
checkVersionWithServer(resp) ==
  IF resp = "404" THEN [needs_migration |-> FALSE, reason |-> "user_not_found"]
  ELSE IF resp \in {"4xx", "5xx"}
  THEN [needs_migration |-> FALSE, reason |-> "version_check_failed"]
  ELSE IF resp \in {"neterr", "2xx_garbled"}
  THEN [needs_migration |-> FALSE, reason |-> "version_check_error"]
  ELSE [needs_migration |-> resp = "2xx_needs", reason |-> "server"]

\* checkNeedsFullReset, after the answer to its version check
checkNeedsFullReset(resp) ==
  IF resp = "404"
  THEN [needsReset |-> TRUE, reason |-> "user_not_found", clearLocalOnly |-> TRUE]
  ELSE IF resp \in {"4xx", "5xx"}
  THEN [needsReset |-> FALSE, reason |-> "version_check_failed", clearLocalOnly |-> FALSE]
  ELSE IF resp \in {"neterr", "2xx_garbled"}
  THEN [needsReset |-> FALSE, reason |-> "version_check_error", clearLocalOnly |-> FALSE]
  ELSE IF resp = "2xx_needs"
  THEN [needsReset |-> TRUE, reason |-> "server", clearLocalOnly |-> FALSE]
  ELSE [needsReset |-> FALSE, reason |-> "up_to_date", clearLocalOnly |-> FALSE]

\* the values performSilentReset returns
Result(success, skipped, reason) ==
  [success |-> success, skipped |-> skipped, reason |-> reason]
NoResult == Result(FALSE, FALSE, "none")

\* a flag that counts only a completed sync
didAutoResetOf_successOnly(r) == r.success

\* bin/cli.js: didAutoReset = resetResult.success || resetResult.skipped
didAutoResetOf(r) == r.success \/ r.skipped

StartupIdle ==
  /\ spc = "start"
  /\ versionResp = "none"
  /\ resetResp = "none"
  /\ resetResult = NoResult
  /\ needsReauth = FALSE
  /\ scanned = FALSE
  /\ netlog = <<>>

\* a state in which nothing of the startup is looked at
NoStartup ==
  /\ cli = "silent"
  /\ config = [oauth_token |-> FALSE, oauth_token_secret |-> FALSE]
  /\ marker = FALSE
  /\ isResetCommand = FALSE
  /\ StartupIdle

\* a resetUserData that reports success whatever the endpoint answered
resetUserData_alwaysOk(resp) == "ok"

\* resetUserData of auto-reset.js: 404 is "nothing to reset", any other
\* failure is thrown
resetUserData(resp) ==
  IF resp = "2xx" THEN "ok" ELSE IF resp = "404" THEN "skipped" ELSE "thrown"

\* resetUserData of the migration: 404 "User not found" is thrown as
\* USER_NOT_FOUND, any other failure as a plain error
resetUserData_migration(resp) ==
  IF resp = "2xx" THEN "ok" ELSE IF resp = "404" THEN "USER_NOT_FOUND" ELSE "thrown"

\* bin/cli.js (silent auto-reset): shouldPerformReset
ShouldPerformReset ==
  /\ cli = "silent" /\ spc = "start"
  /\ spc' = IF hasTokens(config) THEN "vcheck" ELSE "migrate"
  /\ UNCHANGED <<resetResp, cli, config, marker, isResetCommand, versionResp, resetResult,
                 needsReauth, scanned, netlog>>

\* performSilentReset up to the decision on the version check
VersionCheckSilent ==
  /\ spc = "vcheck"
  /\ \E resp \in VersionResponses :
       /\ versionResp' = resp
       /\ netlog' = Append(netlog, "version-check")
       /\ IF checkVersionWithServer(resp).needs_migration
          THEN /\ marker' = FALSE
               /\ spc' = "reset"
               /\ UNCHANGED resetResult
          ELSE /\ resetResult' = Result(FALSE, TRUE, "already_up_to_date")
               /\ spc' = "migrate"
               /\ UNCHANGED marker
  /\ UNCHANGED <<resetResp, cli, config, isResetCommand, needsReauth, scanned>>

\* performSilentReset, step 1: the reset request
ResetSilent ==
  /\ spc = "reset"
  /\ \E resp \in ResetResponses :
       /\ netlog' = Append(netlog, "reset")
       /\ resetResp' = resp
       /\ LET r == resetUserData(resp)
          IN IF r = "ok"
             THEN spc' = "scan" /\ UNCHANGED resetResult
             ELSE /\ spc' = "migrate"
                  /\ resetResult' = IF r = "skipped"
                                    THEN Result(FALSE, TRUE, "user_not_found")
                                    ELSE Result(FALSE, FALSE, "error")
  /\ UNCHANGED <<cli, config, marker, isResetCommand, versionResp, needsReauth,
                 scanned>>

\* performSilentReset, step 2: the full-history scan
ScanSilent ==
  /\ spc = "scan"
  /\ scanned' = TRUE
  /\ \E empty \in BOOLEAN :
       IF empty
       THEN spc' = "migrate" /\ resetResult' = Result(TRUE, FALSE, "no_data")
       ELSE spc' = "upload" /\ UNCHANGED resetResult
  /\ UNCHANGED <<resetResp, cli, config, marker, isResetCommand, versionResp, needsReauth,
                 netlog>>

\* performSilentReset, step 3: uploadShardedNdjson returns or throws
UploadSilent ==
  /\ spc = "upload"
  /\ netlog' = Append(netlog, "upload")
  /\ \E returned \in BOOLEAN :
       resetResult' = IF returned THEN Result(TRUE, FALSE, "synced")
                      ELSE Result(FALSE, FALSE, "error")
  /\ spc' = "migrate"
  /\ UNCHANGED <<resetResp, cli, config, marker, isResetCommand, versionResp, needsReauth,
                 scanned>>

\* checkAndRunMigration(didAutoReset) up to the call of runMigration
CheckAndRunMigration ==
  /\ spc = "migrate"
  /\ IF marker \/ ~hasTokens(config)
     THEN spc' = "done" /\ UNCHANGED marker
     ELSE IF didAutoResetOf(resetResult)
     THEN spc' = "done" /\ marker' = TRUE
     ELSE spc' = "mreset" /\ UNCHANGED marker
  /\ UNCHANGED <<resetResp, cli, config, isResetCommand, versionResp, resetResult,
                 needsReauth, scanned, netlog>>

\* runMigration, step 1: the reset request
MigrationReset ==
  /\ spc = "mreset"
  /\ \E resp \in ResetResponses :
       /\ netlog' = Append(netlog, "reset")
       /\ resetResp' = resp
       /\ LET r == resetUserData_migration(resp)
          IN IF r = "ok" THEN spc' = "mscan" /\ UNCHANGED config
             ELSE IF r = "USER_NOT_FOUND"
             THEN spc' = "reauth" /\ config' = clearAuthData(config)
             ELSE spc' = "exit1" /\ UNCHANGED config
  /\ UNCHANGED <<cli, marker, isResetCommand, versionResp, resetResult,
                 needsReauth, scanned>>

\* runMigration, step 2: the full-history scan
MigrationScan ==
  /\ spc = "mscan"
  /\ scanned' = TRUE
  /\ \E empty \in BOOLEAN :
       IF empty THEN spc' = "done" /\ marker' = TRUE
       ELSE spc' = "mupload" /\ UNCHANGED marker
  /\ UNCHANGED <<resetResp, cli, config, isResetCommand, versionResp, resetResult,
                 needsReauth, netlog>>

\* runMigration, steps 3 and 4: upload and marker
MigrationUpload ==
  /\ spc = "mupload"
  /\ netlog' = Append(netlog, "upload")
  /\ \E returned \in BOOLEAN :
       IF returned THEN spc' = "done" /\ marker' = TRUE
       ELSE spc' = "exit1" /\ UNCHANGED marker
  /\ UNCHANGED <<resetResp, cli, config, isResetCommand, versionResp, resetResult,
                 needsReauth, scanned>>

\* bin/cli.js (full reset): checkNeedsFullReset and the branch on its result
CheckFull ==
  /\ cli = "full" /\ spc = "start"
  /\ IF isResetCommand \/ ~hasTokens(config)
     THEN spc' = "done" /\ UNCHANGED <<versionResp, netlog>>
     ELSE \E resp \in VersionResponses :
            /\ versionResp' = resp
            /\ netlog' = Append(netlog, "version-check")
            /\ LET r == checkNeedsFullReset(resp)
               IN spc' = IF ~r.needsReset THEN "done"
                         ELSE IF r.clearLocalOnly THEN "clear" ELSE "delete"
  /\ UNCHANGED <<resetResp, cli, config, marker, isResetCommand, resetResult, needsReauth,
                 scanned>>

\* bin/cli.js (full reset): clearLocalOnly
ClearLocal ==
  /\ spc = "clear"
  /\ config' = clearAuthData(config)
  /\ needsReauth' = TRUE
  /\ spc' = "done"
  /\ UNCHANGED <<resetResp, cli, marker, isResetCommand, versionResp, resetResult, scanned,
                 netlog>>

\* performFullReset: the delete request, then clearAuthData whatever the
\* answer
FullReset ==
  /\ spc = "delete"
  /\ \E resp \in ResetResponses :
       netlog' = Append(netlog, "delete") /\ resetResp' = resp
  /\ config' = clearAuthData(config)
  /\ needsReauth' = TRUE
  /\ spc' = "done"
  /\ UNCHANGED <<cli, marker, isResetCommand, versionResp, resetResult, scanned>>

StartupStep ==
  \/ ShouldPerformReset \/ VersionCheckSilent \/ ResetSilent \/ ScanSilent
  \/ UploadSilent \/ CheckAndRunMigration \/ MigrationReset \/ MigrationScan
  \/ MigrationUpload \/ CheckFull \/ ClearLocal \/ FullReset

(***************************************************************************)
(* The usage scanner (src/auth/tokens.js): lines and parseUsageFromLine.   *)
(*                                                                         *)
(* A line is described by what JSON.parse makes of it.  A JSON value of a  *)
(* token field is absent, a string, or a number.                           *)
(***************************************************************************)
Absent == [t |-> "absent", n |-> 0]
Text == [t |-> "string", n |-> 0]
Num(k) == [t |-> "number", n |-> k]

RawLines ==
  [json : {"invalid", "scalar", "object"},
   timestamp : {"", "t1"},
   message : {"absent", "no_usage", "usage"},
   input_tokens : {Absent, Text, Num(1), Num(2)},
   output_tokens : {Absent, Text, Num(2)},
   cache_creation_input_tokens : {Absent, Num(3)},
   cache_read_input_tokens : {Absent, Num(4)},
   model : {"", "opus"},
   mid : MsgIds, rid : ReqIds]

NoTokens == [input |-> 0, output |-> 0, cache_creation |-> 0, cache_read |-> 0]
NullRecord ==
  [present |-> FALSE, timestamp |-> "", tokens |-> NoTokens, model |-> "",
   interaction_id |-> NULL]

\* a validateUsageData that looks at input_tokens only
validateUsageData_inputOnly(data) ==
  /\ data.json = "object"
  /\ data.timestamp # ""
  /\ data.message = "usage"
  /\ data.input_tokens.t = "number"

\* validateUsageData
validateUsageData(data) ==
  /\ data.json = "object"
  /\ data.timestamp # ""
  /\ data.message = "usage"
  /\ data.input_tokens.t = "number"
  /\ data.output_tokens.t = "number"

\* usage.cache_creation_input_tokens || 0
OrZero(v) == IF v.t = "absent" \/ (v.t = "number" /\ v.n = 0) THEN 0 ELSE v.n

\* parseUsageFromLine: JSON.parse throws on an invalid line and the catch
\* block returns null
parseUsageFromLine(line) ==
  IF line.json = "invalid" THEN NullRecord
  ELSE IF ~validateUsageData(line) THEN NullRecord
  ELSE [present |-> TRUE,
        timestamp |-> line.timestamp,
        tokens |-> [input |-> line.input_tokens.n,
                    output |-> line.output_tokens.n,
                    cache_creation |-> OrZero(line.cache_creation_input_tokens),
                    cache_read |-> OrZero(line.cache_read_input_tokens)],
        model |-> IF line.model = "" THEN "unknown" ELSE line.model,
        interaction_id |-> createUniqueHash_scanner(line)]

NotParsed == [done |-> FALSE, result |-> NullRecord]

\* one call of parseUsageFromLine
Parse ==
  /\ ~pout.done
  /\ pout' = [done |-> TRUE, result |-> parseUsageFromLine(pline)]
  /\ UNCHANGED <<pline, sin, sout>>

(***************************************************************************)
(* The usage scanner: scanJsonlFile and scanAllHistoricalUsage.            *)
(***************************************************************************)
\* lines of the scanned files: valid lines with input_tokens k, and a line
\* that is not JSON
GoodLine(mid, rid, k) ==
  [json |-> "object", timestamp |-> "t1", message |-> "usage",
   input_tokens |-> Num(k), output_tokens |-> Num(2),
   cache_creation_input_tokens |-> Absent,
   cache_read_input_tokens |-> Num(4),
   model |-> "opus", mid |-> mid, rid |-> rid]
MalformedLine ==
  [json |-> "invalid", timestamp |-> "", message |-> "absent",
   input_tokens |-> Absent, output_tokens |-> Absent,
   cache_creation_input_tokens |-> Absent,
   cache_read_input_tokens |-> Absent,
   model |-> "", mid |-> "", rid |-> ""]
ScanLineKinds ==
  {GoodLine("m1", "r1", 1), GoodLine("m1", "r1", 2), GoodLine("", "r1", 1),
   MalformedLine}

\* what getClaudePaths and glob find: no root; a root without files; or two
\* files, each readable or not, in the order glob lists them
ScanInputs ==
  {[roots |-> 0, files |-> <<>>], [roots |-> 1, files |-> <<>>]} \cup
  UNION {
    {[roots |-> 1,
      files |-> << [readable |-> r1, lines |-> SubSeq(all, 1, k)],
                   [readable |-> r2, lines |-> SubSeq(all, k + 1, Len(all))] >>] :
       r1 \in BOOLEAN, r2 \in BOOLEAN, k \in 0..Len(all)} :
    all \in SeqsUpTo(ScanLineKinds, MaxScanLines)}

RECURSIVE scanLoop(_, _, _)
\* scanJsonlFile: the loop over the lines
scanLoop(ls, seenInteractions, usageEntries) ==
  IF Len(ls) = 0 THEN [entries |-> usageEntries, seen |-> seenInteractions]
  ELSE LET usageData == parseUsageFromLine(ls[1])
           uniqueHash == usageData.interaction_id
       IN IF ~usageData.present
          THEN scanLoop(Tail(ls), seenInteractions, usageEntries)
          ELSE IF uniqueHash # NULL /\ uniqueHash \in seenInteractions
          THEN scanLoop(Tail(ls), seenInteractions, usageEntries)
          ELSE scanLoop(Tail(ls),
                        IF uniqueHash # NULL
                        THEN seenInteractions \cup {uniqueHash}
                        ELSE seenInteractions,
                        Append(usageEntries, usageData))

RECURSIVE scanLoop_keepsAll(_, _)
scanLoop_keepsAll(ls, usageEntries) ==
  IF Len(ls) = 0 THEN usageEntries
  ELSE LET usageData == parseUsageFromLine(ls[1])
       IN scanLoop_keepsAll(Tail(ls),
                            IF usageData.present
                            THEN Append(usageEntries, usageData)
                            ELSE usageEntries)

\* a scanJsonlFile that never consults seenInteractions
scanJsonlFile_keepsAll(file, seenInteractions) ==
  IF ~file.readable THEN [entries |-> <<>>, seen |-> seenInteractions]
  ELSE [entries |-> scanLoop_keepsAll(file.lines, <<>>), seen |-> seenInteractions]

RECURSIVE scanLoop_stopsAtBadLine(_, _, _)
scanLoop_stopsAtBadLine(ls, seenInteractions, usageEntries) ==
  IF Len(ls) = 0 \/ ~parseUsageFromLine(ls[1]).present
  THEN [entries |-> usageEntries, seen |-> seenInteractions]
  ELSE LET r == scanLoop(<<ls[1]>>, seenInteractions, usageEntries)
       IN scanLoop_stopsAtBadLine(Tail(ls), r.seen, r.entries)

\* a scanJsonlFile whose loop is left at the first line that does not parse
scanJsonlFile_stopsAtBadLine(file, seenInteractions) ==
  IF ~file.readable THEN [entries |-> <<>>, seen |-> seenInteractions]
  ELSE scanLoop_stopsAtBadLine(file.lines, seenInteractions, <<>>)

\* scanJsonlFile: readFile throws for an unreadable file and the catch
\* block leaves usageEntries empty
scanJsonlFile(file, seenInteractions) ==
  IF ~file.readable THEN [entries |-> <<>>, seen |-> seenInteractions]
  ELSE scanLoop(file.lines, seenInteractions, <<>>)

RECURSIVE scanFiles(_, _, _)
\* scanAllHistoricalUsage: the loop over allFiles
scanFiles(files, seenInteractions, allUsageEntries) ==
  IF Len(files) = 0 THEN [entries |-> allUsageEntries, seen |-> seenInteractions]
  ELSE LET r == scanJsonlFile(files[1], seenInteractions)
       IN scanFiles(Tail(files), r.seen, allUsageEntries \o r.entries)

RECURSIVE TokenSum(_, _)
TokenSum(entries, field) ==
  IF Len(entries) = 0 THEN 0
  ELSE entries[1].tokens[field] + TokenSum(Tail(entries), field)

\* scanAllHistoricalUsage: the totals of the entries
totalsOf(entries) ==
  LET i == TokenSum(entries, "input")
      o == TokenSum(entries, "output")
      cc == TokenSum(entries, "cache_creation")
      cr == TokenSum(entries, "cache_read")
  IN [input |-> i, output |-> o, cache_creation |-> cc, cache_read |-> cr,
      total |-> i + o + cc + cr]

\* a seenInteractions that lives on between two scans
newSeenInteractions_shared(previous) == previous

\* const seenInteractions = new Set(): whatever an earlier scan has seen
newSeenInteractions(previous) == {}

\* scanAllHistoricalUsage; previous is the set an earlier scan ended with
scanHistoricalUsage(input, previous) ==
  IF input.roots = 0 \/ Len(input.files) = 0
  THEN [entries |-> <<>>, totals |-> totalsOf(<<>>), seen |-> previous]
  ELSE LET r == scanFiles(input.files, newSeenInteractions(previous), <<>>)
       IN [entries |-> r.entries, totals |-> totalsOf(r.entries), seen |-> r.seen]

NoScan ==
  /\ pline = MalformedLine
  /\ pout = NotParsed
  /\ sin = [roots |-> 0, files |-> <<>>]
  /\ sout = <<>>

\* one call of scanAllHistoricalUsage
ScanAll ==
  /\ Len(sout) < MaxScans
  /\ LET previous == IF Len(sout) = 0 THEN {} ELSE sout[Len(sout)].seen
     IN sout' = Append(sout, scanHistoricalUsage(sin, previous))
  /\ UNCHANGED <<pline, pout, sin>>


(***************************************************************************)
(* The exit status of a hook run.                                          *)
(***************************************************************************)
HookVersions == {"count_tokens", "part_006", "part_004"}
Responses426 == Responses \cup {"426"}

\* what a run meets: whether main throws outside the delivery, whether a
\* usage record is found, whether the user is authenticated, whether the
\* record is in the ledger, and the answer the server has for each attempt
Runs ==
  [version : HookVersions, throws : BOOLEAN, hasUsage : BOOLEAN,
   authed : BOOLEAN, duplicate : BOOLEAN,
   resps : [1..SEND_MAX_RETRIES -> Responses426]]

NotExited == [done |-> FALSE, code |-> 0, attempts |-> 0, failed |-> FALSE]
Exited(code, attempts, failed) ==
  [done |-> TRUE, code |-> code, attempts |-> attempts, failed |-> failed]

NoRun ==
  /\ run = [version |-> "count_tokens", throws |-> FALSE, hasUsage |-> FALSE,
            authed |-> FALSE, duplicate |-> FALSE,
            resps |-> [i \in 1..SEND_MAX_RETRIES |-> "2xx"]]
  /\ exited = NotExited

\* main of count_tokens.js and of part_006: every path ends in
\* process.exit(0), the catch blocks included
main_retrying(r) ==
  IF r.throws THEN Exited(0, 0, FALSE)
  ELSE IF ~r.hasUsage \/ ~r.authed \/ r.duplicate THEN Exited(0, 0, FALSE)
  ELSE LET res == sendToAPI(r.resps)
       IN Exited(0, res.attempts, ~res.ok)

\* main and sendToAPI of part_004: one attempt; 426 exits with 2 inside
\* the response handler; an exception outside the delivery exits with 1
main_part_004(r) ==
  IF r.throws THEN Exited(1, 0, FALSE)
  ELSE IF ~r.authed \/ ~r.hasUsage THEN Exited(0, 0, FALSE)
  ELSE IF r.resps[1] = "2xx" THEN Exited(0, 1, FALSE)
  ELSE IF r.resps[1] = "426" THEN Exited(2, 1, TRUE)
  ELSE Exited(0, 1, TRUE)

main(r) == IF r.version = "part_004" THEN main_part_004(r) ELSE main_retrying(r)

\* one whole run of the hook
RunHook ==
  /\ ~exited.done
  /\ exited' = main(run)
  /\ UNCHANGED run

InitExit ==
  /\ HookInitWith(0) /\ hook = "count_tokens"
  /\ uin = NoInput /\ UploadIdle /\ NoStartup
  /\ run \in Runs
  /\ exited = NotExited
  /\ NoScan
NextExit == RunHook /\ UNCHANGED <<hookVars, upVars, startVars, scanVars>>
SpecExit == InitExit /\ [][NextExit]_vars

\* parseUsageFromLine applied to any line
InitParse ==
  /\ HookInitWith(0) /\ hook = "count_tokens"
  /\ uin = NoInput /\ UploadIdle /\ NoStartup /\ NoRun
  /\ pline \in RawLines
  /\ pout = NotParsed
  /\ sin = [roots |-> 0, files |-> <<>>]
  /\ sout = <<>>
NextParse == Parse /\ UNCHANGED <<hookVars, upVars, startVars, exitVars>>
SpecParse == InitParse /\ [][NextParse]_vars

\* full-history scans over unchanged files
InitScan ==
  /\ HookInitWith(0) /\ hook = "count_tokens"
  /\ uin = NoInput /\ UploadIdle /\ NoStartup /\ NoRun
  /\ pline = MalformedLine
  /\ pout = NotParsed
  /\ sin \in ScanInputs
  /\ sout = <<>>
NextScan == ScanAll /\ UNCHANGED <<hookVars, upVars, startVars, exitVars>>
SpecScan == InitScan /\ [][NextScan]_vars

(***************************************************************************)
(* Specifications.                                                         *)
(***************************************************************************)
\* runs of the hook one after the other
Init == HookInitWith(MaxLines) /\ uin = NoInput /\ UploadIdle /\ NoStartup /\ NoRun /\ NoScan
Next ==
  /\ \E p \in Procs : (\A q \in Procs \ {p} : pc[q] = "idle") /\ HookStep(p)
  /\ UNCHANGED <<upVars, startVars, exitVars, scanVars>>
Spec == Init /\ [][Next]_vars

\* hook processes started at any time, also while another one is running
InitConc == HookInitWith(MaxLinesConc) /\ uin = NoInput /\ UploadIdle /\ NoStartup /\ NoRun /\ NoScan
NextConc == (\E p \in Procs : HookStep(p)) /\ UNCHANGED <<upVars, startVars, exitVars, scanVars>>
SpecConc == InitConc /\ [][NextConc]_vars

\* one call of uploadShardedNdjson
InitUpload ==
  /\ HookInitWith(0) /\ hook = "count_tokens"
  /\ uin \in UploadInputs /\ UploadIdle
  /\ NoStartup /\ NoRun /\ NoScan
NextUpload == UploadStep /\ UNCHANGED <<hookVars, startVars, exitVars, scanVars>>
SpecUpload == InitUpload /\ [][NextUpload]_vars

\* the same call over lines that all parse and carry a timestamp, with an
\* endpoint that may leave requests unanswered
InitUploadTimeout == InitUpload /\ uin.bad = 0 /\ uin.nots = 0
NextUploadTimeout ==
  (UploadStep \/ (\E b \in 1..NDates : Timeout(b)))
    /\ UNCHANGED <<hookVars, startVars, exitVars, scanVars>>
SpecUploadTimeout == InitUploadTimeout /\ [][NextUploadTimeout]_vars

\* one start of the command line program
InitStartup ==
  /\ HookInitWith(0) /\ hook = "count_tokens"
  /\ uin = NoInput /\ UploadIdle
  /\ cli \in {"silent", "full"}
  /\ config \in Configs
  /\ marker \in BOOLEAN
  /\ isResetCommand \in BOOLEAN
  /\ cli = "silent" => ~isResetCommand
  /\ StartupIdle
  /\ NoRun /\ NoScan
NextStartup == StartupStep /\ UNCHANGED <<hookVars, upVars, exitVars, scanVars>>
SpecStartup == InitStartup /\ [][NextStartup]_vars

\* performSilentReset, steps 1 to 3 in one step, every batch resolved as
\* delivered: the server forgets the user's records, then holds each entry
\* of the full-history scan once.  The code of these steps never opens the
\* ledger file.
FullHistoryDelivery ==
  /\ \A p \in Procs : pc[p] = "idle"
  /\ upc = "idle"
  /\ LET entries == scanAllHistoricalUsage(log)
         srcs == {entries[i].src : i \in 1..Len(entries)}
     IN /\ Len(entries) > 0
        /\ deliveries' = [r \in DOMAIN deliveries |-> IF r \in srcs THEN 1 ELSE 0]
        /\ totals' = [processed |-> Len(entries), failed |-> 0]
  /\ upc' = "done"
  /\ UNCHANGED <<hook, log, now, ledgerFile, pc, usage, tracking, backlog, bidx,
                 runOK, runFailed>>
  /\ UNCHANGED <<uin, batches, bs, widx, results, answer>>

\* hook runs one after the other, with one full-history resync between them
InitResync == HookInitWith(MaxLinesConc) /\ uin = NoInput /\ UploadIdle /\ NoStartup /\ NoRun /\ NoScan
NextResync ==
  \/ /\ \E p \in Procs : (\A q \in Procs \ {p} : pc[q] = "idle") /\ HookStep(p)
     /\ UNCHANGED <<upVars, startVars, exitVars, scanVars>>
  \/ FullHistoryDelivery /\ UNCHANGED <<startVars, exitVars, scanVars>>
SpecResync == InitResync /\ [][NextResync]_vars

\* the process is killed while main awaits sendToAPI: its locals are gone,
\* the files stay as they are
Interrupt(p) ==
  /\ pc[p] \in {"send", "backlog"}
  /\ Exit(p)
  /\ UNCHANGED <<hook, log, now, ledgerFile, deliveries>>

\* sequential hook runs, each of which may be killed during a request
InitInterrupt == Init
NextInterrupt ==
  /\ \E p \in Procs :
       /\ \A q \in Procs \ {p} : pc[q] = "idle"
       /\ HookStep(p) \/ Interrupt(p)
  /\ UNCHANGED <<upVars, startVars, exitVars, scanVars>>
SpecInterrupt == InitInterrupt /\ [][NextInterrupt]_vars

\* sequential hook runs that start with any ledger file
InitLedger ==
  HookInitFrom(MaxLinesConc, LedgerFiles) /\ uin = NoInput /\ UploadIdle /\ NoStartup /\ NoRun /\ NoScan
NextLedger == Next
SpecLedger == InitLedger /\ [][NextLedger]_vars

\* overlapping hook runs over one log file of two recent records with two
\* different interaction ids, each made of a single identifier
InitOverlap ==
  /\ HookInitWith(MaxLinesConc + 1)
  /\ log[1].lines = <<>>
  /\ uin = NoInput /\ UploadIdle /\ NoStartup /\ NoRun /\ NoScan
  /\ LET ls == AllLines(log)
     IN /\ Cardinality(ls) = MaxLinesConc + 1
        /\ \A l \in ls : l.valid /\ l.ts = NewDay /\ createUniqueHash_hook(l) # NULL
        /\ \A l \in ls : l.mid = "" \/ l.rid = ""
        /\ \A l, m \in ls : l # m => createUniqueHash_hook(l) # createUniqueHash_hook(m)
NextOverlap == NextConc
SpecOverlap == InitOverlap /\ [][NextOverlap]_vars

\* the planning part of uploadShardedNdjson alone
InitPlan == InitUpload
NextPlan == StartUpload /\ UNCHANGED <<hookVars, startVars, exitVars, scanVars>>
SpecPlan == InitPlan /\ [][NextPlan]_vars

(***************************************************************************)
(* Properties of the hook.                                                 *)
(***************************************************************************)
IdsOf(records) == {createUniqueHash_hook(r) : r \in records}

\* process p has a sendToAPI call for record r in progress
Sending(p, r) ==
  \/ pc[p] = "send" /\ usage[p].src = r
  \/ pc[p] = "backlog" /\ backlog[p][bidx[p]].src = r

\* C1: over sequential runs, a record with a non-null interaction_id that
\* an earlier run delivered is never sent again by a later run: no run has a
\* request in progress for a record the server has already accepted.
C1_NeverSentAgain ==
  \A p \in Procs : \A r \in DOMAIN deliveries :
    (createUniqueHash_hook(r) # NULL /\ Sending(p, r)) => deliveries[r] = 0

\* C2: the ledger file gains (or rewrites) the entry of id X only in a step
\* of a run that has a confirmed delivery for X; and when a run ends, a
\* record whose sendToAPI call threw and that was not delivered later in
\* the same run has no live entry in the ledger, so the next run's
\* loadTracking does not hide it.
C2_LedgerOnlyOnSuccess ==
  [][ /\ \A X \in DOMAIN ledgerFile'.data :
           (X \notin DOMAIN ledgerFile.data \/ ledgerFile'.data[X] # ledgerFile.data[X])
             => \E p \in Procs : X \in IdsOf(runOK[p])
      /\ \A p \in Procs : (pc[p] # "idle" /\ pc'[p] = "idle") =>
           \A r \in runFailed[p] :
             createUniqueHash_hook(r) \notin IdsOf(runOK[p])
               => createUniqueHash_hook(r) \notin DOMAIN loadTracking(ledgerFile', now')
    ]_vars

\* a run in which one delivery was confirmed and saved and another one
\* failed: the ledger holds the first id and not the second
C2_Witness ==
  \E p \in Procs : \E r \in runFailed[p] : \E q \in runOK[p] :
    /\ pc[p] = "bsave"
    /\ createUniqueHash_hook(r) # NULL
    /\ createUniqueHash_hook(r) \notin DOMAIN ledgerFile.data
    /\ createUniqueHash_hook(q) \in DOMAIN ledgerFile.data

\* C3: with hook processes that overlap in time, the server accepts a
\* record with a non-null interaction_id at most once in total.  (Stated
\* for the records whose ledger entry outlives the retention window, so
\* that only the interleaving can be what breaks it.)
C3_AtMostOnceConcurrent ==
  \A r \in DOMAIN deliveries :
    (createUniqueHash_hook(r) # NULL /\ r.ts > now - TRACKING_RETENTION_DAYS)
      => deliveries[r] <= 1

NullIdLines == {l \in AllLines(log) : l.valid /\ createUniqueHash_hook(l) = NULL}
ScannerNullIdLines ==
  {l \in AllLines(log) : l.valid /\ createUniqueHash_scanner(l) = NULL}

\* the valid record a newest-first walk of the log meets first
NewestValid == getLatestTokenUsage_A(log)

\* C4: a valid record with a null interaction_id is in the result of every
\* scan that meets it: in the full-history scan, in the backlog scan (which
\* here meets every line: fewer than BACKLOG_LIMIT records, fewer than
\* BACKLOG_MAX_FILES files), and in the latest-unsubmitted scan whenever
\* the newest valid record is such a record.
C4_NullIdNeverDropped ==
  /\ \A l \in ScannerNullIdLines :
       \E i \in 1..Len(scanAllHistoricalUsage(log)) :
         scanAllHistoricalUsage(log)[i].src = l
  /\ \A p \in Procs :
       /\ (pc[p] \in {"backlog", "bsave"} /\ Len(backlog[p]) < BACKLOG_LIMIT) =>
            \A l \in NullIdLines : \E i \in 1..Len(backlog[p]) : backlog[p][i].src = l
       /\ (pc[p] = "send" /\ usage[p].source = "scan"
             /\ NewestValid.interaction_id = NULL) => usage[p] = NewestValid

\* C5: the interaction_id a hook run works with is the one the single
\* policy gives for the same line: the composite of message id and request
\* id when both are present, null otherwise (the full-history scanner's
\* createUniqueHash).
C5_UniformIdPolicy ==
  \A p \in Procs :
    usage[p].present =>
      usage[p].interaction_id = createUniqueHash_scanner(usage[p].src)

(***************************************************************************)
(* Properties of the bulk uploader.                                        *)
(***************************************************************************)
\* the window (from 0) a batch belongs to
WindowOf(b) == (b - 1) \div 3
Started(b) == bs[b].status # "pending"
Settled(b) == bs[b].status = "done"

\* C6: at most 3 batch requests are in flight at any moment (a call that
\* waits for its retry counts as in flight), and a batch of a later window
\* is started only when every batch of every earlier window has settled,
\* by success or by terminal failure.
C6_WindowDiscipline ==
  /\ Cardinality({b \in 1..Len(bs) : bs[b].status = "inflight"}) <= 3
  /\ \A b1, b2 \in 1..Len(bs) :
       (WindowOf(b1) < WindowOf(b2) /\ Started(b2)) => Settled(b1)

\* a batch of the second window is in flight after a batch of the first
\* window has ended in terminal failure, next to one that succeeded
C6_Witness ==
  \E b1, b2, b3 \in 1..Len(bs) :
    /\ WindowOf(b1) = 0 /\ WindowOf(b2) = 0 /\ WindowOf(b3) = 1
    /\ bs[b1].error /\ Settled(b2) /\ ~bs[b2].error
    /\ bs[b3].status = "inflight"

\* C7: no batch is attempted more than 4 times, and a batch whose call has
\* given up (every attempt failed) was attempted exactly 4 times and is
\* returned as a result with processed = 0 and failed = the batch's length.
C7_FourAttemptsThenFailed ==
  \A b \in 1..Len(bs) :
    /\ bs[b].attempts <= 4
    /\ (Settled(b) /\ bs[b].error) =>
         /\ bs[b].attempts = 4
         /\ bs[b].processed = 0
         /\ bs[b].failed = batches[b].size

\* a batch has been given up and its result is part of the returned totals
C7_Witness ==
  /\ upc = "done"
  /\ \E b \in 1..Len(bs) : bs[b].error /\ bs[b].attempts = 4
  /\ totals.failed > 0

RECURSIVE SumOver(_, _)
SumOver(S, f) ==
  IF S = {} THEN 0
  ELSE LET x == CHOOSE y \in S : TRUE IN f[x] + SumOver(S \ {x}, f)

\* C8: when uploadShardedNdjson returns, every planned batch has been sent
\* and has settled, whatever became of the batches before it, and the
\* returned totals are the sums of the batches' processed and failed counts.
C8_AllDispatchedTotalsAreSums ==
  upc = "done" =>
    /\ Len(bs) = Len(planBatches(uin.byDate))
    /\ \A b \in 1..Len(bs) : Started(b) /\ Settled(b)
    /\ totals.processed = SumOver(1..Len(bs), [b \in 1..Len(bs) |-> bs[b].processed])
    /\ totals.failed = SumOver(1..Len(bs), [b \in 1..Len(bs) |-> bs[b].failed])

\* a run has returned in which the first batch ended in terminal failure
\* and a batch of the second window was delivered
C8_Witness ==
  /\ upc = "done"
  /\ Len(bs) > 3
  /\ bs[1].error
  /\ ~bs[Len(bs)].error /\ bs[Len(bs)].processed > 0
  /\ totals.processed > 0 /\ totals.failed > 0

\* C9: after the endpoint has answered a batch with a 4xx status (other
\* than 409), the batch is not retried: its call has ended with processed =
\* 0 and failed = the batch's length.
C9_PermanentNotRetried ==
  answer.code = "4xx" =>
    /\ Settled(answer.batch)
    /\ bs[answer.batch].processed = 0
    /\ bs[answer.batch].failed = batches[answer.batch].size

\* C10: after the endpoint has answered a batch with 409 (duplicate), the
\* batch is delivered: its call has ended, without retry, and none of its
\* records is counted as failed.
C10_DuplicateIsSuccess ==
  answer.code = "409" =>
    /\ Settled(answer.batch)
    /\ ~bs[answer.batch].error
    /\ bs[answer.batch].failed = 0

\* C11: after a 2xx answer whose body parses to {processed: p, failed: f}
\* the batch's result is exactly processed = p and failed = f, also for
\* p = 0; after a 2xx answer with an unparsable body it is processed = the
\* batch's length and failed = 0.
C11_BodyCountsAreAuthoritative ==
  answer.code = "2xx" =>
    /\ Settled(answer.batch)
    /\ IF answer.parsable
       THEN /\ bs[answer.batch].processed = answer.processed
            /\ bs[answer.batch].failed = answer.failed
       ELSE /\ bs[answer.batch].processed = batches[answer.batch].size
            /\ bs[answer.batch].failed = 0

\* C12: a batch request that gets no answer within its timeout becomes a
\* failure that enters the retry policy, so no uploadBatch call is left
\* waiting: no request stays open after its timeout, and a running
\* uploadShardedNdjson can always take a further step towards its return.
C12_TimeoutBecomesFailure ==
  /\ \A b \in 1..Len(bs) : bs[b].status # "hung"
  /\ upc = "running" => ENABLED NextUploadTimeout

Planned == upc \in {"running", "done"}
BatchIx == 1..Len(batches)
\* the records of the dates a batch covers
RecordsOf(k) == SumOver(Range(batches[k].dates), uin.byDate)
\* the batches that cover date d
BatchesOf(d) == {k \in BatchIx : d \in Range(batches[k].dates)}

\* C13: of the N records given to the planner (the parsed lines, with or
\* without timestamp) each is in exactly one batch: the batch sizes add up
\* to N.
C13_SizesAddUpToInput ==
  Planned =>
    SumOver(BatchIx, [k \in BatchIx |-> batches[k].size])
      = uin.nots + SumOver(Dates, uin.byDate)

\* C14 (as stated): no batch holds records of two different dates; the
\* ceiling never forces two dates into one batch, since a date is never
\* split.
C14_NeverMixDates ==
  \A k \in BatchIx : Len(batches[k].dates) <= 1

\* C14 (amended): every date's records are all in one batch, and a batch
\* holds records of two or more dates only when these dates' records
\* together stay within the ceiling of 5000.
C14_MixOnlyWithinCeiling ==
  Planned =>
    /\ \A d \in Dates : uin.byDate[d] > 0 => Cardinality(BatchesOf(d)) = 1
    /\ \A k \in BatchIx :
         /\ batches[k].size = RecordsOf(k)
         /\ Len(batches[k].dates) >= 2 => RecordsOf(k) <= 5000

\* two dates of half a batch each share a batch
C14_Witness ==
  /\ Planned
  /\ \E k \in BatchIx : Len(batches[k].dates) = 2 /\ batches[k].size = 5000

\* C15: a batch that holds more than one date has at most 5000 records,
\* and a batch has more than 5000 records only when it holds exactly one
\* date whose own record count exceeds 5000.
C15_OversizeOnlySingleDate ==
  \A k \in BatchIx :
    /\ Len(batches[k].dates) > 1 => batches[k].size <= 5000
    /\ batches[k].size > 5000 =>
         /\ Len(batches[k].dates) = 1
         /\ uin.byDate[batches[k].dates[1]] > 5000

\* a plan with a batch of two dates and a batch above the ceiling
C15_Witness ==
  /\ Planned
  /\ \E k \in BatchIx : Len(batches[k].dates) > 1
  /\ \E k \in BatchIx : batches[k].size > 5000

(***************************************************************************)
(* Properties of the startup reconciliation.                               *)
(***************************************************************************)
Sent(name) == \E i \in 1..Len(netlog) : netlog[i] = name
Ended == spc \in {"done", "exit1", "reauth"}
NoDestructiveCall ==
  ~Sent("reset") /\ ~Sent("delete") /\ ~Sent("upload") /\ ~scanned

\* C16: after a 2xx answer of the version check with needs_migration =
\* false, the run sends no reset request, no delete request and performs
\* no full-history scan and upload.
C16_UpToDateNeverResets ==
  versionResp = "2xx_noneed" => NoDestructiveCall

\* a silent start without marker file has ended after such an answer: the
\* version check was its only request, and the marker has been written
C16_Witness ==
  /\ cli = "silent" /\ spc = "done" /\ marker
  /\ versionResp = "2xx_noneed"
  /\ resetResult.skipped
  /\ netlog = <<"version-check">>

\* C17: when the version check was answered 404, no reset or delete
\* request is sent, and the run ends with the stored credentials
\* invalidated.
C17_NotFoundInvalidatesCredentials ==
  versionResp = "404" =>
    /\ ~Sent("reset") /\ ~Sent("delete")
    /\ Ended => ~(config.oauth_token /\ config.oauth_token_secret)

\* C18: when the version check failed with a network error or with a
\* non-2xx status other than 404, the run sends no reset and no delete
\* request, performs no scan and upload, and demands no re-authentication;
\* the silent auto-reset returns "already up to date".
C18_FailedCheckIsUpToDate ==
  versionResp \in {"4xx", "5xx", "neterr"} =>
    /\ NoDestructiveCall
    /\ ~needsReauth
    /\ spc \notin {"reset", "clear", "delete", "exit1", "reauth"}
    /\ cli = "silent" => resetResult = Result(FALSE, TRUE, "already_up_to_date")

\* a start has ended after a version check that got a 5xx answer
C18_Witness ==
  /\ spc = "done"
  /\ versionResp = "5xx"
  /\ netlog = <<"version-check">>
  /\ config.oauth_token /\ config.oauth_token_secret

\* C19: in a state where not both token fields are stored, no step of the
\* startup sends a request or scans, and none changes the marker, the
\* configuration or the demand to re-authenticate.
C19_NoCredentialsNoNetwork ==
  [][ ~(config.oauth_token /\ config.oauth_token_secret) =>
        /\ netlog' = netlog
        /\ scanned' = scanned
        /\ marker' = marker
        /\ config' = config
        /\ needsReauth' = needsReauth ]_vars

\* a start without credentials and without marker file has ended
C19_Witness ==
  /\ spc = "done"
  /\ ~config.oauth_token /\ ~config.oauth_token_secret
  /\ ~marker /\ ~needsReauth
  /\ netlog = <<>>

\* C20: when the version check demanded a resync and the reset request
\* has been sent, the run does not end without the full-history scan,
\* whatever the reset request was answered.
C20_ResyncAfterAnyReset ==
  (Ended /\ versionResp = "2xx_needs" /\ Sent("reset")) => scanned

\* C21: the step that writes the completion marker directly follows a
\* version check whose answer was "up to date": the last request of the
\* run is that check, made after any reset, scan and upload of the run.
C21_MarkerOnlyAfterConfirmingCheck ==
  [][ (~marker /\ marker') =>
        /\ Len(netlog) > 0
        /\ netlog[Len(netlog)] = "version-check"
        /\ versionResp = "2xx_noneed" ]_vars

\* C22: no failure of a resync ends the process with an error status, and
\* a run whose last reset request failed ends without the marker.
C22_ResyncFailureIsNotFatal ==
  /\ spc # "exit1"
  /\ (Ended /\ resetResp \in {"4xx", "5xx", "neterr"}) => ~marker

\* the records a full-history delivery has handed to the server
Resynced ==
  IF upc = "done"
  THEN {l \in AllLines(log) \cap ValidLines :
          \E i \in 1..Len(scanAllHistoricalUsage(log)) :
            scanAllHistoricalUsage(log)[i].src = l}
  ELSE {}

\* C23: once a full-history delivery has been resolved as delivered, the
\* ledger file holds the interaction id of every delivered record that has
\* one, and no hook run has a request in progress for such a record.
C23_FullHistoryRecordedInLedger ==
  \A r \in Resynced :
    createUniqueHash_scanner(r) # NULL =>
      /\ createUniqueHash_scanner(r) \in DOMAIN ledgerFile.data
      /\ \A p \in Procs : ~Sending(p, r)

\* C24: when a run is killed while it waits for a request, every entry its
\* in-memory ledger holds (the entries loaded and those of the deliveries
\* confirmed so far) is already in the ledger file.
C24_ConfirmedBeforeInterruptIsDurable ==
  [][ \A p \in Procs :
        (pc[p] \in {"send", "backlog"} /\ pc'[p] = "idle") =>
          \A id \in DOMAIN tracking[p] : id \in DOMAIN ledgerFile'.data ]_vars

\* C25: every entry of the ledger file carries the time of its delivery
\* (all deliveries of a behaviour happen at now), and so is inside the
\* retention window counted from that delivery.
C25_EntryCarriesDeliveryTime ==
  \A id \in DOMAIN ledgerFile.data :
    /\ ledgerFile.data[id] = now
    /\ id \in DOMAIN loadTracking(ledgerFile, now)

\* a run that has loaded the ledger and not yet changed its copy of it
Loaded(p) == pc[p] \in {"send", "scan"}

\* C26: what loadTracking returned from a well-formed file is exactly the
\* stored entries less than 30 days old, with their stored values: an
\* entry of 31 days is not in it and an entry of 29 days is.
C26_LoadKeepsRetentionWindow ==
  \A p \in Procs :
    (Loaded(p) /\ ledgerFile.kind = "ok") =>
      /\ DOMAIN tracking[p] =
           {id \in DOMAIN ledgerFile.data :
              now - ledgerFile.data[id] < TRACKING_RETENTION_DAYS}
      /\ \A id \in DOMAIN tracking[p] : tracking[p][id] = ledgerFile.data[id]
      /\ \A id \in DOMAIN ledgerFile.data :
           /\ now - ledgerFile.data[id] = 31 => id \notin DOMAIN tracking[p]
           /\ now - ledgerFile.data[id] = 29 => id \in DOMAIN tracking[p]

\* a run has loaded a file with an entry of 31 days and one of 29 days
C26_Witness ==
  \E p \in Procs : \E x, y \in DOMAIN ledgerFile.data :
    /\ pc[p] = "send" /\ ledgerFile.kind = "ok"
    /\ now - ledgerFile.data[x] = 31 /\ now - ledgerFile.data[y] = 29
    /\ DOMAIN tracking[p] = {y}

\* C27: with the ledger file absent or damaged, the step that loads it
\* leaves the run with the empty ledger and the run goes on: count_tokens.js
\* passes its duplicate check and reaches the delivery, part_006 reaches
\* its scan.
C27_UnreadableLedgerIsEmpty ==
  [][ ledgerFile.kind # "ok" =>
        \A p \in Procs :
          /\ (pc[p] = "load" /\ pc'[p] # "load") =>
               (pc'[p] = "send" /\ tracking'[p] = EmptyLedger)
          /\ (pc[p] = "idle" /\ pc'[p] = "scan") => tracking'[p] = EmptyLedger
    ]_vars

\* a run has reached the delivery over a damaged file whose text came from
\* a map with the id of the record
C27_Witness ==
  \E p \in Procs :
    /\ pc[p] = "send" /\ ledgerFile.kind = "corrupt"
    /\ usage[p].interaction_id \in DOMAIN ledgerFile.data
    /\ now - ledgerFile.data[usage[p].interaction_id] < TRACKING_RETENTION_DAYS
    /\ tracking[p] = EmptyLedger

\* the first valid record of a newest-first walk whose interaction id is
\* null or not among the live entries of the ledger td
LatestUnsubmitted(files, td) ==
  LET walk == Flatten(sortFilesByTimestamp(files), TRUE)
      us == [i \in 1..Len(walk) |-> parseUsageFromLine_hook(walk[i])]
  IN FirstMatch(us, [i \in 1..Len(us) |->
                       /\ us[i].interaction_id # NULL
                       /\ us[i].interaction_id \in DOMAIN td])

\* process p is about to leave the latest-unsubmitted scan and the
\* duplicate check that follows it
LeavingScan(p) ==
  \/ pc[p] = "scan"
  \/ pc[p] = "load" /\ usage[p].source = "scan"

\* C28: a run in latest-unsubmitted mode goes on to deliver exactly the
\* first valid record, newest first, whose id is null or not in the
\* ledger, and it ends without a delivery only when there is no such
\* record.
C28_LatestUnsubmittedIsFirstMatch ==
  [][ \A p \in Procs :
        LET expected == LatestUnsubmitted(log, loadTracking(ledgerFile, now))
        IN /\ (LeavingScan(p) /\ pc'[p] = "send") => usage'[p] = expected
           /\ (LeavingScan(p) /\ pc'[p] = "idle") => ~expected.present ]_vars

\* the answer that ended the delivery of the run, "none" without delivery
LastAnswer == IF exited.attempts > 0 THEN run.resps[exited.attempts] ELSE "none"

\* C29: a run that has ended has exit status 2 when the server answered
\* 426 to its delivery, and exit status 0 in every other case.
C29_ExitZeroUnlessIncompatible ==
  exited.done => exited.code = IF LastAnswer = "426" THEN 2 ELSE 0

\* the run went as far as the delivery with the retrying sendToAPI
Delivering ==
  /\ exited.done /\ exited.attempts > 0
  /\ run.version \in {"count_tokens", "part_006"}

\* C30: in the revisions with the retrying sendToAPI, every attempt but
\* the last was answered by a transient failure, a transient failure is
\* retried until the attempts are used up, a 4xx answer other than 409 to
\* the first attempt ends the call as a failure after that attempt, and a
\* run whose delivery failed still ends with status 0.
C30_RetryOnlyTransient ==
  Delivering =>
    /\ exited.attempts <= SEND_MAX_RETRIES
    /\ \A i \in 1..(exited.attempts - 1) : run.resps[i] \in {"5xx", "neterr"}
    /\ LastAnswer \in {"5xx", "neterr"} => exited.attempts = SEND_MAX_RETRIES
    /\ run.resps[1] \in {"4xx", "426"} => (exited.attempts = 1 /\ exited.failed)
    /\ exited.failed <=> LastAnswer \notin {"2xx", "409"}
    /\ exited.failed => exited.code = 0

\* a delivery that used up its attempts on transient failures, and the run
\* ended with status 0
C30_Witness ==
  /\ Delivering
  /\ exited.attempts = SEND_MAX_RETRIES
  /\ \A i \in 1..SEND_MAX_RETRIES : run.resps[i] \in {"5xx", "neterr"}
  /\ exited.failed /\ exited.code = 0

(***************************************************************************)
(* Properties of the usage scanner.                                        *)
(***************************************************************************)
RECURSIVE ReadableLines(_)
\* the lines a scan reads, in file-processing order
ReadableLines(files) ==
  IF Len(files) = 0 THEN <<>>
  ELSE (IF files[1].readable THEN files[1].lines ELSE <<>>)
         \o ReadableLines(Tail(files))

ScanWalk == IF sin.roots = 0 THEN <<>> ELSE ReadableLines(sin.files)
ScanParsed == [i \in 1..Len(ScanWalk) |-> parseUsageFromLine(ScanWalk[i])]

\* line i is valid and no earlier valid line has its non-null id
FirstOfId(i) ==
  /\ ScanParsed[i].present
  /\ \/ ScanParsed[i].interaction_id = NULL
     \/ \A j \in 1..(i - 1) :
          ~(ScanParsed[j].present
              /\ ScanParsed[j].interaction_id = ScanParsed[i].interaction_id)

\* C31: for every non-null interaction id met by a scan, the result holds
\* exactly one record with that id, and it is the record of the first
\* valid line with that id in file-processing order, whether the lines
\* with that id are in one file or in two.
C31_FirstOfSharedIdIsKept ==
  \A k \in 1..Len(sout) : \A i \in 1..Len(ScanParsed) :
    (FirstOfId(i) /\ ScanParsed[i].interaction_id # NULL) =>
      LET e == sout[k].entries
          hits == {x \in 1..Len(e) :
                     e[x].interaction_id = ScanParsed[i].interaction_id}
      IN /\ Cardinality(hits) = 1
         /\ \A x \in hits : e[x] = ScanParsed[i]

\* two different records with one id, the first in the first file and
\* the second in the second file: the scan returned the first only
C31_Witness ==
  /\ Len(sout) >= 1 /\ Len(sin.files) = 2
  /\ sin.files[1].readable /\ sin.files[2].readable
  /\ sin.files[1].lines = <<GoodLine("m1", "r1", 1)>>
  /\ sin.files[2].lines = <<GoodLine("m1", "r1", 2)>>
  /\ sout[1].entries = <<parseUsageFromLine(GoodLine("m1", "r1", 1))>>

\* C32: two scans over the same files return the same totals (input,
\* output, cache_creation, cache_read, total) and the same number of
\* records.
C32_ScanTwiceSameTotals ==
  Len(sout) >= 2 =>
    /\ sout[1].totals = sout[2].totals
    /\ Len(sout[1].entries) = Len(sout[2].entries)

\* two scans were made over files with a record that has an id
C32_Witness ==
  /\ Len(sout) = 2
  /\ sout[2].totals.total > 0
  /\ \E x \in 1..Len(sout[2].entries) : sout[2].entries[x].interaction_id # NULL

\* C33: the result of a scan is, in file-processing order, the record of
\* every valid line of every readable file (less the later records of a
\* shared id): lines that do not parse and files that cannot be read take
\* nothing else away, and without root, file or valid line the result is
\* empty with totals of zero.
C33_BadItemsAreSkipped ==
  \A k \in 1..Len(sout) :
    LET ix == SortedSeq({i \in 1..Len(ScanParsed) : FirstOfId(i)})
    IN /\ sout[k].entries = [x \in 1..Len(ix) |-> ScanParsed[ix[x]]]
       /\ sout[k].totals = totalsOf(sout[k].entries)
       /\ (\A i \in 1..Len(ScanParsed) : ~ScanParsed[i].present) =>
            (sout[k].entries = <<>> /\ sout[k].totals.total = 0)

\* a file of three valid lines and one malformed line next to a file that
\* cannot be read: three records
C33_Witness ==
  /\ Len(sout) >= 1 /\ Len(sin.files) = 2
  /\ sin.files[1].readable /\ ~sin.files[2].readable
  /\ sin.files[1].lines = << GoodLine("", "r1", 1), MalformedLine,
                            GoodLine("m1", "r1", 2), GoodLine("", "r1", 1) >>
  /\ Len(sout[1].entries) = 3

\* C34: parseUsageFromLine returns null or a record; null for a line that
\* is not JSON, has no timestamp, no message.usage block, or an
\* input_tokens or output_tokens that is not a number; in a record an
\* absent cache count is 0 and an absent model is "unknown".
C34_ParseNullOrNormalized ==
  pout.done =>
    LET r == pout.result
    IN /\ r = NullRecord \/ r.present
       /\ ( \/ pline.json = "invalid"
            \/ pline.timestamp = ""
            \/ pline.message # "usage"
            \/ pline.input_tokens.t # "number"
            \/ pline.output_tokens.t # "number" ) => r = NullRecord
       /\ r.present =>
            /\ pline.cache_creation_input_tokens = Absent => r.tokens.cache_creation = 0
            /\ pline.cache_read_input_tokens = Absent => r.tokens.cache_read = 0
            /\ pline.model = "" => r.model = "unknown"
            /\ r.tokens.input = pline.input_tokens.n
            /\ r.tokens.output = pline.output_tokens.n

\* a record was returned for a line without cache counts and model
C34_Witness ==
  /\ pout.done /\ pout.result.present
  /\ pline.cache_creation_input_tokens = Absent
  /\ pline.cache_read_input_tokens = Absent
  /\ pline.model = ""
  /\ pout.result.tokens.cache_creation = 0
  /\ pout.result.model = "unknown"

C36_SaveKeepsOthersEntries ==
  [][ \A id \in DOMAIN ledgerFile.data :
        ledgerFile.data[id] > now - TRACKING_RETENTION_DAYS
          => id \in DOMAIN ledgerFile'.data ]_vars

\* C37: every date that has records is covered by exactly one batch, in
\* which it occurs once and whose size counts all records of its dates:
\* no date is split, however many records it has.
C37_DateNeverSplit ==
  Planned =>
    \A d \in Dates : uin.byDate[d] > 0 =>
      \E k \in BatchIx :
        /\ BatchesOf(d) = {k}
        /\ Cardinality({i \in 1..Len(batches[k].dates) : batches[k].dates[i] = d}) = 1
        /\ batches[k].size >= uin.byDate[d]
        /\ batches[k].size = RecordsOf(k)

\* a date with more records than the ceiling is in one batch
C37_Witness ==
  /\ Planned
  /\ \E d \in Dates : \E k \in BatchIx :
       /\ uin.byDate[d] > BATCH_SIZE
       /\ BatchesOf(d) = {k}
       /\ batches[k].size = uin.byDate[d]

\* C38: the batches carry the numbers 1, 2, ... in output order, each
\* batch lists exactly the dates its records have (no date without
\* records, none twice), and every date of a batch is earlier than every
\* date of a later batch.
C38_NumberedAndOrdered ==
  Planned =>
    /\ \A k \in BatchIx : batches[k].batchNumber = k
    /\ \A k \in BatchIx :
         /\ Len(batches[k].dates) > 0
         /\ \A i \in 1..Len(batches[k].dates) : uin.byDate[batches[k].dates[i]] > 0
         /\ Cardinality(Range(batches[k].dates)) = Len(batches[k].dates)
    /\ \A i, j \in BatchIx : i < j =>
         \A d \in Range(batches[i].dates) : \A e \in Range(batches[j].dates) : d < e

\* a plan of three batches, one of them with two dates
C38_Witness ==
  /\ Planned
  /\ Len(batches) = 3
  /\ \E k \in BatchIx : Len(batches[k].dates) = 2

\* C39: for the ledger of every run and every limit up to the number of
\* log lines, getAllUnsubmittedUsage returns at most limit records whose
\* ids are non-null, pairwise different and not keys of the ledger; and
\* the backlog record a run is about to send has an id of which the run
\* has no confirmed delivery yet.
C39_BacklogDistinctAndUnsubmitted ==
  \A p \in Procs :
    /\ \A limit \in 0..MaxLines :
         LET r == getAllUnsubmittedUsage(log, tracking[p], limit)
         IN /\ Len(r) <= limit
            /\ \A i \in 1..Len(r) :
                 /\ r[i].interaction_id # NULL
                 /\ r[i].interaction_id \notin DOMAIN tracking[p]
                 /\ \A j \in 1..Len(r) :
                      i # j => r[i].interaction_id # r[j].interaction_id
    /\ pc[p] = "backlog" =>
         /\ backlog[p][bidx[p]].interaction_id # NULL
         /\ backlog[p][bidx[p]].interaction_id \notin IdsOf(runOK[p])

\* the stdin record of a run was delivered and recorded, its line is in
\* the log, and the run sends a backlog that the limit 1 would cut
C39_Witness ==
  \E p \in Procs :
    /\ pc[p] = "backlog"
    /\ usage[p].source = "stdin" /\ usage[p].src \in runOK[p]
    /\ usage[p].interaction_id \in DOMAIN tracking[p]
    /\ Len(getAllUnsubmittedUsage(log, EmptyLedger, MaxLines)) = 2
    /\ Len(getAllUnsubmittedUsage(log, EmptyLedger, 1)) = 1
    /\ Len(backlog[p]) = 1

====
